---- MODULE Spec2Model ----
(***************************************************************************)
(* Model of app_open_source.py: a Streamlit script with two handlers       *)
(* ("Get Answer" and "Generate Abbreviation Index") over the helpers       *)
(* get_answer, extract_text_from_file and extract_abbreviations.           *)
(*                                                                         *)
(* A Python str is a sequence of one-character strings; a bytes object is  *)
(* a sequence of byte tokens, one token per encoded character, with the    *)
(* token InvalidByte standing for a byte that is not valid UTF-8.          *)
(***************************************************************************)
EXTENDS Integers, Sequences, FiniteSets, TLC

VARIABLES
    mode,                \* st.radio value: "qa" or "abbr"
    user_question,       \* st.text_input value
    uploaded_files,      \* st.file_uploader(key="qa_uploader") value
    uploaded_files_abbr, \* st.file_uploader(key="abbr_uploader") value
    pc,                  \* position of the script run
    idx,                 \* number of files the running for-loop has finished
    all_text,            \* local of the Get Answer handler
    abbr_dict,           \* local of the abbreviation handler (insertion ordered)
    out,                 \* what the run has displayed so far, in order
    calls,               \* the helper and library calls of the run, in order
    outcome,             \* how the run ended
    arg,                 \* input of a function applied on its own
    ret                  \* its result

vars == <<mode, user_question, uploaded_files, uploaded_files_abbr, pc, idx,
          all_text, abbr_dict, out, calls, outcome, arg, ret>>

appVars == <<mode, user_question, uploaded_files, uploaded_files_abbr, pc, idx,
             all_text, abbr_dict, out, calls, outcome>>

(***************************************************************************)
(* Bounds of the model.                                                    *)
(***************************************************************************)
MaxFiles == 2
MaxSegments == 2

(***************************************************************************)
(* Program constants.                                                      *)
(***************************************************************************)
ContextLimit == 4000
PreviewLimit == 500
MinFullTermTail == 2
MinAbbrLen == 2
MaxAbbrLen == 10

(***************************************************************************)
(* Strings.                                                                *)
(***************************************************************************)
Min(a, b) == IF a < b THEN a ELSE b

UpperLetters == <<"A","B","C","D","E","F","G","H","I","J","K","L","M",
                  "N","O","P","Q","R","S","T","U","V","W","X","Y","Z">>
LowerLetters == <<"a","b","c","d","e","f","g","h","i","j","k","l","m",
                  "n","o","p","q","r","s","t","u","v","w","x","y","z">>
Digits == {"0","1","2","3","4","5","6","7","8","9"}

IsUpper(c) == \E i \in 1..26 : UpperLetters[i] = c
IsLower(c) == \E i \in 1..26 : LowerLetters[i] = c
IsLetter(c) == IsUpper(c) \/ IsLower(c)
\* str.isspace() characters, also the class \s of the re module
IsSpace(c) == c \in {" ", "\t", "\n", "\r", "\f"}
\* the class \w of the re module, which \b is defined by
IsWordChar(c) == IsLetter(c) \/ c \in Digits \/ c = "_"

\* the code point order of two upper-case letters
UpperCode(c) == CHOOSE i \in 1..26 : UpperLetters[i] = c

\* s[:n]
Slice(s, n) == SubSeq(s, 1, Min(Len(s), n))

\* s[i:] with i counted from 1
From(s, i) == SubSeq(s, i, Len(s))

\* str.lower()
Lower(s) ==
    [i \in 1..Len(s) |->
        IF IsUpper(s[i]) THEN LowerLetters[UpperCode(s[i])] ELSE s[i]]

\* str.strip()
Strip(s) ==
    IF \A i \in 1..Len(s) : IsSpace(s[i]) THEN <<>>
    ELSE LET lo == CHOOSE i \in 1..Len(s) :
                       ~IsSpace(s[i]) /\ \A j \in 1..(i - 1) : IsSpace(s[j])
             hi == CHOOSE i \in 1..Len(s) :
                       ~IsSpace(s[i]) /\ \A j \in (i + 1)..Len(s) : IsSpace(s[j])
         IN  SubSeq(s, lo, hi)

\* sep.join(parts)
RECURSIVE Join(_, _)
Join(parts, sep) ==
    IF parts = <<>> THEN <<>>
    ELSE IF Len(parts) = 1 THEN parts[1]
    ELSE parts[1] \o sep \o Join(Tail(parts), sep)

\* the pieces of s between the occurrences of sep, empty pieces kept
RECURSIVE SplitOn(_, _)
SplitOn(s, sep) ==
    IF \A i \in 1..Len(s) : s[i] # sep THEN <<s>>
    ELSE LET p == CHOOSE i \in 1..Len(s) :
                      s[i] = sep /\ \A j \in 1..(i - 1) : s[j] # sep
         IN  <<SubSeq(s, 1, p - 1)>> \o SplitOn(From(s, p + 1), sep)

\* str.split(): the maximal runs of non-whitespace characters
RECURSIVE Words(_)
Words(s) ==
    LET t == IF \E i \in 1..Len(s) : ~IsSpace(s[i])
             THEN From(s, CHOOSE i \in 1..Len(s) :
                              ~IsSpace(s[i]) /\ \A j \in 1..(i - 1) : IsSpace(s[j]))
             ELSE <<>>
    IN  IF t = <<>> THEN <<>>
        ELSE IF \A i \in 1..Len(t) : ~IsSpace(t[i]) THEN <<t>>
        ELSE LET e == CHOOSE i \in 1..Len(t) :
                          IsSpace(t[i]) /\ \A j \in 1..(i - 1) : ~IsSpace(t[j])
             IN  <<SubSeq(t, 1, e - 1)>> \o Words(From(t, e))

(***************************************************************************)
(* pathlib: Path(name).suffix                                              *)
(***************************************************************************)
\* Path(name).name: the final path component
PathName(name) ==
    IF \A i \in 1..Len(name) : name[i] # "/" THEN name
    ELSE From(name, 1 + CHOOSE i \in 1..Len(name) :
                  name[i] = "/" /\ \A j \in (i + 1)..Len(name) : name[j] # "/")

\* PurePath.suffix: name[i:] for i = name.rfind("."), when 0 < i < len(name) - 1
PathSuffix(path) ==
    LET name == PathName(path)
        dots == {i \in 1..Len(name) : name[i] = "."}
    IN  IF dots = {} THEN <<>>
        ELSE LET i == CHOOSE d \in dots : \A e \in dots : e <= d
             IN  IF 1 < i /\ i < Len(name) THEN From(name, i) ELSE <<>>

(***************************************************************************)
(* The parsing libraries, by what the script uses of them.  Each returns   *)
(* [raised, value].                                                        *)
(***************************************************************************)
InvalidByte == "0xFF"
PdfMagic == "%"
ZipMagic == "P"
PageBreak == "\f"
ScriptOpen == "<script>"
ScriptClose == "</script>"
StyleOpen == "<style>"
StyleClose == "</style>"
OtherTags == {"<p>", "</p>", "<br>"}
BadMarkup == "<!["
Tags == {ScriptOpen, ScriptClose, StyleOpen, StyleClose} \cup OtherTags

\* bytes.decode("utf-8", errors="ignore"): invalid bytes are dropped
Decode(file_bytes) == SelectSeq(file_bytes, LAMBDA b : b # InvalidByte)

\* PdfReader(stream).pages: raises unless the stream is a PDF document
PdfReader(file_bytes) ==
    IF file_bytes = <<>> \/ file_bytes[1] # PdfMagic
        \/ \E i \in 1..Len(file_bytes) : file_bytes[i] = InvalidByte
    THEN [raised |-> TRUE, value |-> <<>>]
    ELSE [raised |-> FALSE, value |-> SplitOn(Tail(file_bytes), PageBreak)]

\* docx.Document(stream).paragraphs: raises unless the stream is a .docx package
DocxDocument(file_bytes) ==
    IF file_bytes = <<>> \/ file_bytes[1] # ZipMagic
        \/ \E i \in 1..Len(file_bytes) : file_bytes[i] = InvalidByte
    THEN [raised |-> TRUE, value |-> <<>>]
    ELSE [raised |-> FALSE, value |-> SplitOn(Tail(file_bytes), "\n")]

\* soup(["script", "style"]) + tag.extract(): drop these elements, tag and content
RECURSIVE DropScriptStyle(_, _)
DropScriptStyle(tokens, closing) ==
    IF tokens = <<>> THEN <<>>
    ELSE IF closing # "" THEN
        DropScriptStyle(Tail(tokens), IF Head(tokens) = closing THEN "" ELSE closing)
    ELSE IF Head(tokens) = ScriptOpen THEN DropScriptStyle(Tail(tokens), ScriptClose)
    ELSE IF Head(tokens) = StyleOpen THEN DropScriptStyle(Tail(tokens), StyleClose)
    ELSE <<Head(tokens)>> \o DropScriptStyle(Tail(tokens), "")

\* the text nodes of a token sequence: the maximal runs of non-tag tokens
RECURSIVE TextNodes(_)
TextNodes(tokens) ==
    IF tokens = <<>> THEN <<>>
    ELSE IF Head(tokens) \in Tags THEN TextNodes(Tail(tokens))
    ELSE LET n == IF \A i \in 1..Len(tokens) : tokens[i] \notin Tags
                  THEN Len(tokens)
                  ELSE (CHOOSE i \in 1..Len(tokens) :
                            tokens[i] \in Tags
                            /\ \A j \in 1..(i - 1) : tokens[j] \notin Tags) - 1
         IN  <<SubSeq(tokens, 1, n)>> \o TextNodes(From(tokens, n + 1))

\* BeautifulSoup(markup, "html.parser"): html.parser asserts on some broken
\* markup declarations, which bs4 raises as ParserRejectedMarkup
BeautifulSoup(file_bytes) ==
    IF \E i \in 1..Len(file_bytes) : file_bytes[i] = BadMarkup
    THEN [raised |-> TRUE, value |-> <<>>]
    ELSE [raised |-> FALSE, value |-> Decode(file_bytes)]

(***************************************************************************)
(* extract_text_from_file                                                  *)
(***************************************************************************)
Returned(branch, text) == [raised |-> FALSE, text |-> text, branch |-> branch]
Raised(branch) == [raised |-> TRUE, text |-> <<>>, branch |-> branch]

\* the suffix as written, not lower-cased
FileSuffixRaw(uploaded_file) == PathSuffix(uploaded_file.name)

\* suffix = Path(uploaded_file.name).suffix.lower()
FileSuffix(uploaded_file) == Lower(PathSuffix(uploaded_file.name))

extract_text_from_file(uploaded_file) ==
    LET file_bytes == uploaded_file.bytes
        suffix == FileSuffix(uploaded_file)
    IN  IF suffix = <<".", "t", "x", "t">> THEN
            Returned("txt", Decode(file_bytes))
        ELSE IF suffix = <<".", "p", "d", "f">> THEN
            LET reader == PdfReader(file_bytes)
            IN  IF reader.raised THEN Raised("pdf")
                ELSE Returned("pdf", Join(reader.value, <<"\n">>))
        ELSE IF suffix = <<".", "d", "o", "c", "x">> THEN
            LET document == DocxDocument(file_bytes)
            IN  IF document.raised THEN Raised("docx")
                ELSE Returned("docx", Join(document.value, <<"\n">>))
        ELSE IF suffix \in {<<".", "h", "t", "m", "l">>, <<".", "h", "t", "m">>} THEN
            LET soup == BeautifulSoup(file_bytes)
            IN  IF soup.raised THEN Raised("html")
                ELSE Returned("html",
                        Join(TextNodes(DropScriptStyle(soup.value, "")), <<"\n">>))
        ELSE Returned("other", <<>>)

(***************************************************************************)
(* re.findall(pattern, text) for the pattern of extract_abbreviations:     *)
(*   \b([A-Za-z][A-Za-z\s\-]{2,})\s*\(([A-Z]{2,10})\)                      *)
(***************************************************************************)
InFullTermClass(c) == IsLetter(c) \/ IsSpace(c) \/ c = "-"

\* \b at position p: exactly one of text[p-1], text[p] is a word character
WordBoundary(text, p) ==
    LET before == p > 1 /\ p - 1 <= Len(text) /\ IsWordChar(text[p - 1])
        after == p >= 1 /\ p <= Len(text) /\ IsWordChar(text[p])
    IN  before # after

\* \(([A-Z]{2,10})\) at position k: the lengths n of group 2 that match
AbbrLengthsAt(text, k) ==
    {n \in MinAbbrLen..MaxAbbrLen :
        /\ k + n + 1 <= Len(text)
        /\ text[k] = "("
        /\ \A j \in (k + 1)..(k + n) : IsUpper(text[j])
        /\ text[k + n + 1] = ")"}

\* \s*\(([A-Z]{2,10})\) after a group 1 that ends at q: where the "(" can be
ParenAfter(text, q) ==
    {k \in (q + 1)..Len(text) :
        /\ \A j \in (q + 1)..(k - 1) : IsSpace(text[j])
        /\ AbbrLengthsAt(text, k) # {}}

\* the ends q of group 1, started at p, from which the rest of the pattern matches
FullTermEnds(text, p) ==
    {q \in (p + MinFullTermTail)..Len(text) :
        /\ \A j \in (p + 1)..q : InFullTermClass(text[j])
        /\ ParenAfter(text, q) # {}}

\* the match at p, if any: every quantifier is greedy, so group 1 is the longest
MatchAt(text, p) ==
    IF p <= Len(text) /\ WordBoundary(text, p) /\ IsLetter(text[p])
       /\ FullTermEnds(text, p) # {}
    THEN LET ends == FullTermEnds(text, p)
             q == CHOOSE e \in ends : \A f \in ends : f <= e
             k == CHOOSE e \in ParenAfter(text, q) :
                      \A f \in ParenAfter(text, q) : f <= e
             n == CHOOSE e \in AbbrLengthsAt(text, k) :
                      \A f \in AbbrLengthsAt(text, k) : f <= e
         IN  [found |-> TRUE,
              full_term |-> SubSeq(text, p, q),
              abbr |-> SubSeq(text, k + 1, k + n),
              next |-> k + n + 2]
    ELSE [found |-> FALSE, full_term |-> <<>>, abbr |-> <<>>, next |-> p + 1]

\* the non-overlapping matches from position p on, left to right
RECURSIVE FindAllFrom(_, _)
FindAllFrom(text, p) ==
    IF p > Len(text) THEN <<>>
    ELSE LET m == MatchAt(text, p)
         IN  IF m.found
             THEN <<[full_term |-> m.full_term, abbr |-> m.abbr]>>
                      \o FindAllFrom(text, m.next)
             ELSE FindAllFrom(text, m.next)

FindAll(text) == FindAllFrom(text, 1)

(***************************************************************************)
(* extract_abbreviations.  A dict is the sequence of its items in          *)
(* insertion order.                                                        *)
(***************************************************************************)
Keys(d) == {d[i].key : i \in 1..Len(d)}
Lookup(d, k) == d[CHOOSE i \in 1..Len(d) : d[i].key = k].value

\* full_term_clean = " ".join(full_term.split())
Normalize(full_term) == Join(Words(full_term), <<" ">>)

\* a loop body without the "not in" test: the last meaning replaces the first
KeepLast(d, m) ==
    LET item == [key |-> Strip(m.abbr), value |-> Normalize(m.full_term)]
    IN  IF item.key \in Keys(d)
        THEN [i \in 1..Len(d) |-> IF d[i].key = item.key THEN item ELSE d[i]]
        ELSE Append(d, item)

\* one iteration of the for loop over the matches
KeepFirst(d, m) ==
    LET full_term_clean == Normalize(m.full_term)
        abbr == Strip(m.abbr)
    IN  IF abbr \notin Keys(d)
        THEN Append(d, [key |-> abbr, value |-> full_term_clean])
        ELSE d

RECURSIVE AbbrLoop(_, _)
AbbrLoop(d, matches) ==
    IF matches = <<>> THEN d
    ELSE AbbrLoop(KeepFirst(d, Head(matches)), Tail(matches))

extract_abbreviations(text) == AbbrLoop(<<>>, FindAll(text))

(***************************************************************************)
(* sorted(abbr_dict.keys()): str comparison is by code point, a proper     *)
(* prefix first.                                                           *)
(***************************************************************************)
StrLess(a, b) ==
    \/ Len(a) < Len(b) /\ \A i \in 1..Len(a) : a[i] = b[i]
    \/ \E i \in 1..Min(Len(a), Len(b)) :
          /\ \A j \in 1..(i - 1) : a[j] = b[j]
          /\ UpperCode(a[i]) < UpperCode(b[i])

RECURSIVE SortSet(_)
SortSet(S) ==
    IF S = {} THEN <<>>
    ELSE LET least == CHOOSE a \in S : \A b \in S \ {a} : StrLess(a, b)
         IN  <<least>> \o SortSet(S \ {least})

\* abbr_dict.keys() as the dict gives them, unsorted
InsertionOrder(d) == [i \in 1..Len(d) |-> d[i].key]

Sorted(d) == SortSet(Keys(d))

(***************************************************************************)
(* get_answer: the context handed to the question-answering pipeline       *)
(***************************************************************************)
\* the call of the pipeline with the context as given, not cut
get_answer_whole(question, context) ==
    [fn |-> "qa", question |-> question, context |-> context]

\* context = context[:4000]; qa(question=question, context=context)
get_answer(question, context) ==
    [fn |-> "qa", question |-> question, context |-> Slice(context, ContextLimit)]

(***************************************************************************)
(* What the user can type and upload.                                      *)
(***************************************************************************)
File(name, file_bytes) == [name |-> name, bytes |-> file_bytes]

Repeat(c, n) == [i \in 1..n |-> c]

\* f"\n\n===== {file.name} =====\n\n"
Header(name) == <<"\n", "\n", "=", "=", "=", "=", "=", " ">> \o name \o <<" ", "=", "=", "=", "=", "=", "\n", "\n">>

Questions == {<<>>, <<"q", "?">>}
Answers == {<<>>, <<"a", "1">>}

NameA == <<"a", ".", "t", "x", "t">>
NameB == <<"b", ".", "t", "x", "t">>
NameL == <<"l", ".", "t", "x", "t">>
NameM == <<"m", ".", "t", "x", "t">>

\* files for the question-answering uploader: empty, blank, short, one that
\* fills the context limit exactly, one that passes it by one, a corrupt and a
\* sound PDF, an HTML page and an upper-case extension; the uploader accepts
\* the types pdf, docx, txt, html and htm only
QAFiles ==
    { File(NameA, <<>>),
      File(<<"w", ".", "t", "x", "t">>, <<" ", "\n">>),
      File(NameB, <<"Y">>),
      File(NameL, Repeat("x", ContextLimit - Len(Header(NameL)))),
      File(NameM, Repeat("x", ContextLimit + 1 - Len(Header(NameM)))),
      File(<<"c", ".", "p", "d", "f">>, <<"X">>),
      File(<<"d", ".", "p", "d", "f">>, <<PdfMagic>> \o <<"p", "1", "\f", "p", "2">>),
      File(<<"h", ".", "h", "t", "m", "l">>, <<"<p>", "H", "</p>", ScriptOpen, "j", ScriptClose>>),
      File(<<"k", ".", "T", "X", "T">>, <<"X">>) }

\* files for the abbreviation uploader: keys out of alphabetical order, the
\* same acronym with another full term, the same acronym twice, no match, a
\* corrupt PDF, a sound and a corrupt .docx, an HTML page with a script
AbbrFiles ==
    { File(<<"p", ".", "t", "x", "t">>, <<"z", "e", "t", "a", " ", "(", "Z", "A", ")", " ", "a", "l", "p", "h", "a", " ", "t", "e", "r", "m", " ", "(", "A", "T", ")", " ", "a", "b", "c", " ", "(", "A", "T", "B", ")">>),
      File(<<"q", ".", "t", "x", "t">>, <<"a", "l", "p", "h", "a", " ", "t", "h", "i", "n", "g", " ", "(", "A", "T", ")">>),
      File(<<"r", ".", "t", "x", "t">>, <<"a", "l", "p", "h", "a", " ", "t", "e", "r", "m", " ", "(", "A", "T", ")", " ", "a", "n", "d", " ", "a", "l", "p", "h", "a", " ", " ", "t", "h", "i", "n", "g", " ", "(", "A", "T", ")">>),
      File(<<"n", ".", "t", "x", "t">>, <<"n", "o", " ", "p", "a", "r", "e", "n", "s", " ", "h", "e", "r", "e">>),
      File(<<"c", ".", "p", "d", "f">>, <<"z", "e", "t", "a", " ", "(", "Z", "A", ")", " ", "a", "l", "p", "h", "a", " ", "t", "e", "r", "m", " ", "(", "A", "T", ")", " ", "a", "b", "c", " ", "(", "A", "T", "B", ")">>),
      File(<<"d", ".", "d", "o", "c", "x">>, <<ZipMagic>> \o <<"b", "e", "t", "a", "\n", "u", "n", "i", "t", " ", "(", "B", "U", ")">>),
      File(<<"s", ".", "h", "t", "m">>, <<"<p>">> \o <<"g", "a", "m", "m", "a", " ", "r", "a", "y", " ", "(", "G", "R", ")">> \o <<"</p>", ScriptOpen>>
                       \o <<"h", "i", "d", "d", "e", "n", " ", "o", "n", "e", " ", "(", "H", "O", ")">> \o <<ScriptClose>>),
      File(<<"t", ".", "d", "o", "c", "x">>, <<"X">>) }

(***************************************************************************)
(* What a run displays.                                                    *)
(***************************************************************************)
Shown(kind, file, abbr, text) ==
    [kind |-> kind, file |-> file, abbr |-> abbr, text |-> text]

PreviewSuffix == <<".", ".", ".", "\n", "\n", "(", "O", "n", "l", "y", " ", "s", "h", "o", "w", "i", "n", "g", " ", "t", "h", "e", " ", "b", "e", "g", "i", "n", "n", "i", "n", "g", ".", ")">>

NoCall == [fn |-> "none"]
NotApplied == [done |-> FALSE]

InitApp ==
    /\ mode = "qa"
    /\ user_question = <<>>
    /\ uploaded_files = <<>>
    /\ uploaded_files_abbr = <<>>
    /\ pc = "idle"
    /\ idx = 0
    /\ all_text = <<>>
    /\ abbr_dict = <<>>
    /\ out = <<>>
    /\ calls = <<>>
    /\ outcome = "none"

Init ==
    /\ InitApp
    /\ arg = NoCall
    /\ ret = NotApplied

\* every script run starts from fresh locals and an empty page
FreshRun ==
    /\ idx' = 0
    /\ all_text' = <<>>
    /\ abbr_dict' = <<>>
    /\ calls' = <<>>

Waiting == pc \in {"idle", "done"}

(***************************************************************************)
(* The widgets.  A change of a widget reruns the script with no button     *)
(* pressed; the widgets of the branch not taken are not created.           *)
(***************************************************************************)
ChooseMode ==
    /\ Waiting
    /\ \E m \in {"qa", "abbr"} :
        /\ m # mode
        /\ mode' = m
    /\ user_question' = <<>>
    /\ uploaded_files' = <<>>
    /\ uploaded_files_abbr' = <<>>
    /\ FreshRun
    /\ out' = <<>>
    /\ outcome' = "none"
    /\ pc' = "idle"
    /\ UNCHANGED <<arg, ret>>

TypeQuestion ==
    /\ Waiting
    /\ mode = "qa"
    /\ \E q \in Questions : user_question' = q
    /\ FreshRun
    /\ out' = <<>>
    /\ outcome' = "none"
    /\ pc' = "idle"
    /\ UNCHANGED <<mode, uploaded_files, uploaded_files_abbr, arg, ret>>

\* the uploader keeps its list: the user adds a file to it or removes one
RemoveAt(files, i) == SubSeq(files, 1, i - 1) \o SubSeq(files, i + 1, Len(files))

AddDocument ==
    /\ Waiting
    /\ mode = "qa"
    /\ Len(uploaded_files) < MaxFiles
    /\ \E f \in QAFiles : uploaded_files' = Append(uploaded_files, f)
    /\ FreshRun
    /\ out' = <<>>
    /\ outcome' = "none"
    /\ pc' = "idle"
    /\ UNCHANGED <<mode, user_question, uploaded_files_abbr, arg, ret>>

RemoveDocument ==
    /\ Waiting
    /\ mode = "qa"
    /\ \E i \in 1..Len(uploaded_files) : uploaded_files' = RemoveAt(uploaded_files, i)
    /\ FreshRun
    /\ out' = <<>>
    /\ outcome' = "none"
    /\ pc' = "idle"
    /\ UNCHANGED <<mode, user_question, uploaded_files_abbr, arg, ret>>

AddArticle ==
    /\ Waiting
    /\ mode = "abbr"
    /\ Len(uploaded_files_abbr) < MaxFiles
    /\ \E f \in AbbrFiles : uploaded_files_abbr' = Append(uploaded_files_abbr, f)
    /\ FreshRun
    /\ out' = <<>>
    /\ outcome' = "none"
    /\ pc' = "idle"
    /\ UNCHANGED <<mode, user_question, uploaded_files, arg, ret>>

RemoveArticle ==
    /\ Waiting
    /\ mode = "abbr"
    /\ \E i \in 1..Len(uploaded_files_abbr) :
          uploaded_files_abbr' = RemoveAt(uploaded_files_abbr, i)
    /\ FreshRun
    /\ out' = <<>>
    /\ outcome' = "none"
    /\ pc' = "idle"
    /\ UNCHANGED <<mode, user_question, uploaded_files, arg, ret>>

(***************************************************************************)
(* if st.button("Get Answer"): ...                                         *)
(***************************************************************************)
\* the handler without its "elif not uploaded_files" branch
PressGetAnswerNoFileCheck ==
    /\ Waiting
    /\ mode = "qa"
    /\ FreshRun
    /\ IF user_question = <<>>
       THEN /\ out' = <<Shown("warning", 0, <<>>, <<>>)>>
            /\ outcome' = "warning"
            /\ pc' = "done"
       ELSE /\ out' = <<Shown("success", 0, <<>>, <<>>)>>
            /\ outcome' = "none"
            /\ pc' = "qa_loop"
    /\ UNCHANGED <<mode, user_question, uploaded_files, uploaded_files_abbr,
                   arg, ret>>

\* the checks of the question and of the upload, st.warning or st.success
PressGetAnswer ==
    /\ Waiting
    /\ mode = "qa"
    /\ FreshRun
    /\ IF user_question = <<>>
       THEN /\ out' = <<Shown("warning", 0, <<>>, <<>>)>>
            /\ outcome' = "warning"
            /\ pc' = "done"
       ELSE IF uploaded_files = <<>>
       THEN /\ out' = <<Shown("warning", 0, <<>>, <<>>)>>
            /\ outcome' = "warning"
            /\ pc' = "done"
       ELSE /\ out' = <<Shown("success", 0, <<>>, <<>>)>>
            /\ outcome' = "none"
            /\ pc' = "qa_loop"
    /\ UNCHANGED <<mode, user_question, uploaded_files, uploaded_files_abbr,
                   arg, ret>>

\* the loop body with its two "all_text +=" lines in the other order
ReadFileTextFirst ==
    /\ pc = "qa_loop"
    /\ idx < Len(uploaded_files)
    /\ LET file == uploaded_files[idx + 1]
           text == extract_text_from_file(file)
       IN  /\ calls' = Append(calls, [fn |-> "extract_text_from_file",
                                      file |-> idx + 1, result |-> text])
           /\ IF text.raised
              THEN /\ out' = Append(out, Shown("exception", idx + 1, <<>>, <<>>))
                   /\ outcome' = "exception"
                   /\ pc' = "done"
                   /\ UNCHANGED <<all_text, idx>>
              ELSE /\ all_text' = all_text \o text.text \o Header(file.name)
                   /\ idx' = idx + 1
                   /\ pc' = IF idx + 1 = Len(uploaded_files)
                            THEN "qa_check" ELSE "qa_loop"
                   /\ UNCHANGED <<out, outcome>>
    /\ UNCHANGED <<mode, user_question, uploaded_files, uploaded_files_abbr,
                   abbr_dict, arg, ret>>

\* one iteration of "for file in uploaded_files"; an exception of the
\* extractor is not caught anywhere, so it ends the script run
ReadFile ==
    /\ pc = "qa_loop"
    /\ idx < Len(uploaded_files)
    /\ LET file == uploaded_files[idx + 1]
           text == extract_text_from_file(file)
       IN  /\ calls' = Append(calls, [fn |-> "extract_text_from_file",
                                      file |-> idx + 1, result |-> text])
           /\ IF text.raised
              THEN /\ out' = Append(out, Shown("exception", idx + 1, <<>>, <<>>))
                   /\ outcome' = "exception"
                   /\ pc' = "done"
                   /\ UNCHANGED <<all_text, idx>>
              ELSE /\ all_text' = all_text \o Header(file.name) \o text.text
                   /\ idx' = idx + 1
                   /\ pc' = IF idx + 1 = Len(uploaded_files)
                            THEN "qa_check" ELSE "qa_loop"
                   /\ UNCHANGED <<out, outcome>>
    /\ UNCHANGED <<mode, user_question, uploaded_files, uploaded_files_abbr,
                   abbr_dict, arg, ret>>

\* if not all_text.strip(): st.error(...) else: the preview
CheckText ==
    /\ pc = "qa_check"
    /\ IF Strip(all_text) = <<>>
       THEN /\ out' = Append(out, Shown("error", 0, <<>>, <<>>))
            /\ outcome' = "error"
            /\ pc' = "done"
       ELSE /\ out' = out \o
                <<Shown("preview_title", 0, <<>>, <<>>),
                  Shown("preview", 0, <<>>,
                        Slice(all_text, PreviewLimit) \o PreviewSuffix),
                  Shown("thinking", 0, <<>>, <<>>)>>
            /\ outcome' = "none"
            /\ pc' = "qa_answer"
    /\ UNCHANGED <<mode, user_question, uploaded_files, uploaded_files_abbr,
                   idx, all_text, abbr_dict, calls, arg, ret>>

\* answer = get_answer(user_question, all_text); the model's answer is any string
Answer ==
    /\ pc = "qa_answer"
    /\ calls' = Append(calls, get_answer(user_question, all_text))
    /\ \E answer \in Answers :
          out' = out \o <<Shown("answer_title", 0, <<>>, <<>>),
                          Shown("answer", 0, <<>>, answer)>>
    /\ outcome' = "answer"
    /\ pc' = "done"
    /\ UNCHANGED <<mode, user_question, uploaded_files, uploaded_files_abbr,
                   idx, all_text, abbr_dict, arg, ret>>

(***************************************************************************)
(* if st.button("Generate Abbreviation Index"): ...                        *)
(***************************************************************************)
PressGenerate ==
    /\ Waiting
    /\ mode = "abbr"
    /\ FreshRun
    /\ IF uploaded_files_abbr = <<>>
       THEN /\ out' = <<Shown("warning", 0, <<>>, <<>>)>>
            /\ outcome' = "warning"
            /\ pc' = "done"
       ELSE /\ out' = <<>>
            /\ outcome' = "none"
            /\ pc' = "abbr_loop"
    /\ UNCHANGED <<mode, user_question, uploaded_files, uploaded_files_abbr,
                   arg, ret>>

\* the st.write lines of one file's index, in the order `keys` gives
Entries(file, d, keys) ==
    [i \in 1..Len(keys) |-> Shown("entry", file, keys[i], Lookup(d, keys[i]))]

\* one iteration of "for file in uploaded_files_abbr", with the dictionary
\* that extract_abbreviations starts from
IndexFileFrom(start) ==
    /\ pc = "abbr_loop"
    /\ idx < Len(uploaded_files_abbr)
    /\ LET file == uploaded_files_abbr[idx + 1]
           heading == Shown("heading", idx + 1, <<>>, file.name)
           text == extract_text_from_file(file)
           extracted == [fn |-> "extract_text_from_file",
                         file |-> idx + 1, result |-> text]
       IN  IF text.raised
           THEN /\ calls' = Append(calls, extracted)
                /\ out' = out \o <<heading, Shown("exception", idx + 1, <<>>, <<>>)>>
                /\ outcome' = "exception"
                /\ pc' = "done"
                /\ UNCHANGED <<abbr_dict, idx>>
           ELSE LET d == AbbrLoop(start, FindAll(text.text))
                IN  /\ calls' = calls \o
                           <<extracted, [fn |-> "extract_abbreviations",
                                         file |-> idx + 1, result |-> d]>>
                    /\ abbr_dict' = d
                    /\ out' = out \o <<heading>> \o
                           (IF d = <<>>
                            THEN <<Shown("none_found", idx + 1, <<>>, <<>>)>>
                            ELSE Entries(idx + 1, d, Sorted(d)))
                    /\ idx' = idx + 1
                    /\ IF idx + 1 = Len(uploaded_files_abbr)
                       THEN outcome' = "index" /\ pc' = "done"
                       ELSE outcome' = "none" /\ pc' = "abbr_loop"
    /\ UNCHANGED <<mode, user_question, uploaded_files, uploaded_files_abbr,
                   all_text, arg, ret>>

\* the loop body with a dictionary that lives across the calls
IndexFileShared == IndexFileFrom(abbr_dict)

\* abbr_dict = {} at the top of every call of extract_abbreviations
IndexFile == IndexFileFrom(<<>>)

Next ==
    \/ ChooseMode
    \/ TypeQuestion
    \/ AddDocument
    \/ RemoveDocument
    \/ AddArticle
    \/ RemoveArticle
    \/ PressGetAnswer
    \/ ReadFile
    \/ CheckText
    \/ Answer
    \/ PressGenerate
    \/ IndexFile

Spec == Init /\ [][Next]_vars

(***************************************************************************)
(* extract_text_from_file applied on its own, to every name of             *)
(* ExtractNames with every content of ExtractBytes.                        *)
(***************************************************************************)
ExtractNames ==
    { <<"a", ".", "t", "x", "t">>,
      <<"A", ".", "T", "X", "T">>,
      <<"b", ".", "T", "x", "t">>,
      <<"c", ".", "p", "d", "f">>,
      <<"C", ".", "P", "D", "F">>,
      <<"d", ".", "d", "o", "c", "x">>,
      <<"D", ".", "D", "o", "c", "X">>,
      <<"e", ".", "h", "t", "m", "l">>,
      <<"E", ".", "H", "T", "M", "L">>,
      <<"f", ".", "h", "t", "m">>,
      <<"F", ".", "h", "T", "m">>,
      <<"g", ".", "c", "s", "v">>,
      <<"G", ".", "P", "D", "F", "X">>,
      <<"n", "o", "e", "x", "t">>,
      <<".", "t", "x", "t">>,
      <<"i", ".", "t", "x", "t", ".", "b", "a", "k">>,
      <<"j", ".", "b", "a", "k", ".", "T", "x", "T">>,
      <<"k", ".">>,
      <<"x", ".", "p", "d", "f", "/", "m">>,
      <<"n", ".", "d", "o", "c">>,
      <<"o", ".", "x", "h", "t", "m", "l">>,
      <<"p", "t", "x", "t">> }

ExtractBytes ==
    { <<>>,
      <<"X">>,
      <<" ", "\n">>,
      <<"x", InvalidByte, "y">>,
      <<PdfMagic>> \o <<"p", "1", "\f", "p", "2">>,
      <<ZipMagic>> \o <<"b", "e", "t", "a", "\n", "u", "n", "i", "t", " ", "(", "B", "U", ")">>,
      <<"<p>", "H", "</p>", ScriptOpen, "j", ScriptClose, "<br>", "T",
        StyleOpen, "c", StyleClose>>,
      <<"<p>", BadMarkup, "H">> }

InitExtract ==
    /\ InitApp
    /\ \E n \in ExtractNames, b \in ExtractBytes :
          arg = [fn |-> "extract_text_from_file", file |-> File(n, b)]
    /\ ret = NotApplied

ApplyExtract ==
    /\ arg.fn = "extract_text_from_file"
    /\ ~ret.done
    /\ ret' = [done |-> TRUE, value |-> extract_text_from_file(arg.file)]
    /\ UNCHANGED <<appVars, arg>>

SpecExtract == InitExtract /\ [][ApplyExtract]_vars

(***************************************************************************)
(* extract_abbreviations applied on its own, to every text made of at      *)
(* most MaxSegments of the pieces of Segments.                             *)
(***************************************************************************)
Segments ==
    { <<"a", "l", "p", "h", "a", " ", "t", "e", "r", "m", " ", "(", "A", "T", ")">>,
      <<" ", "a", "n", "d", " ", "a", "l", "p", "h", "a", " ", " ", "t", "h", "i", "n", "g", "\n", "(", "A", "T", ")">>,
      <<"x", "-", "r", "a", "y", " ", "u", "n", "i", "t", "(", "X", "U", ")">>,
      <<"a", "b", "(", "A", "B", ")">>,
      <<" ", "n", "o", " ", "p", "a", "r", "e", "n", "s", " ">>,
      <<"B", "i", "g", " ", "D", "a", "t", "a", " ", "(", "b", "d", ")">>,
      <<"l", "o", "n", "g", " ", "n", "a", "m", "e", " ", "(", "A", "B", "C", "D", "E", "F", "G", "H", "I", "J", "K", ")">>,
      <<"9", "l", "i", "v", "e", "s", " ", "c", "a", "t", " ", "(", "A", "B", ")">>,
      <<"z", "e", "t", "a", " ", "(", "Z", "A", ")", " ">>,
      <<"t", "e", "n", " ", "l", "e", "t", "t", "e", "r", "s", " ", "(", "A", "B", "C", "D", "E", "F", "G", "H", "I", "J", ")">>,
      <<"a", "l", "p", "h", "a", " ", "t", "e", "r", "m", "\t", "(", "A", "T", ")", " ">> }

RECURSIVE TextsOf(_)
TextsOf(n) ==
    IF n = 0 THEN {<<>>}
    ELSE TextsOf(n - 1) \cup {t \o g : t \in TextsOf(n - 1), g \in Segments}

InitAbbr ==
    /\ InitApp
    /\ \E t \in TextsOf(MaxSegments) :
          arg = [fn |-> "extract_abbreviations", text |-> t]
    /\ ret = NotApplied

ApplyAbbr ==
    /\ arg.fn = "extract_abbreviations"
    /\ ~ret.done
    /\ ret' = [done |-> TRUE, value |-> extract_abbreviations(arg.text)]
    /\ UNCHANGED <<appVars, arg>>

SpecAbbr == InitAbbr /\ [][ApplyAbbr]_vars

(***************************************************************************)
(* Properties.                                                             *)
(***************************************************************************)
ExtractCalls == SelectSeq(calls, LAMBDA c : c.fn = "extract_text_from_file")
QaCalls == SelectSeq(calls, LAMBDA c : c.fn = "qa")
MatcherCalls == SelectSeq(calls, LAMBDA c : c.fn = "extract_abbreviations")

\* the files of the uploader the current mode shows
CurrentFiles == IF mode = "qa" THEN uploaded_files ELSE uploaded_files_abbr

Blank(text) == \A i \in 1..Len(text) : IsSpace(text[i])

\* the extension a file name ends with: the part from its last dot on, when the
\* dot is neither the first nor the last character of the final path component
Extension(name) ==
    LET cands == {i \in 2..(Len(name) - 1) :
                     /\ name[i] = "."
                     /\ name[i - 1] # "/"
                     /\ \A j \in (i + 1)..Len(name) : name[j] \notin {".", "/"}}
    IN  IF cands = {} THEN <<>> ELSE From(name, CHOOSE i \in cands : TRUE)

SameLetter(a, b) ==
    \/ a = b
    \/ \E i \in 1..26 : {a, b} = {UpperLetters[i], LowerLetters[i]}

SameIgnoringCase(a, b) ==
    /\ Len(a) = Len(b)
    /\ \A i \in 1..Len(a) : SameLetter(a[i], b[i])

\* the branch of extract_text_from_file that serves a lower-case extension
BranchOfExtension ==
    [ext \in {<<".", "t", "x", "t">>, <<".", "p", "d", "f">>, <<".", "d", "o", "c", "x">>, <<".", "h", "t", "m", "l">>, <<".", "h", "t", "m">>} |->
        IF ext = <<".", "t", "x", "t">> THEN "txt"
        ELSE IF ext = <<".", "p", "d", "f">> THEN "pdf"
        ELSE IF ext = <<".", "d", "o", "c", "x">> THEN "docx"
        ELSE "html"]

\* whether the parser of the file's format fails on the file's content
ParserFails(file) ==
    LET ext == Extension(file.name)
    IN  \/ SameIgnoringCase(ext, <<".", "p", "d", "f">>) /\ PdfReader(file.bytes).raised
        \/ SameIgnoringCase(ext, <<".", "d", "o", "c", "x">>) /\ DocxDocument(file.bytes).raised
        \/ /\ SameIgnoringCase(ext, <<".", "h", "t", "m", "l">>) \/ SameIgnoringCase(ext, <<".", "h", "t", "m">>)
           /\ BeautifulSoup(file.bytes).raised

\* C1: a Get Answer run with a question and files whose extracted text is all
\* empty or whitespace ends in the "could not read any text" error, and the
\* answering capability is not invoked in it.
C1_BlankTextEndsInError ==
    ( /\ mode = "qa"
      /\ pc = "done"
      /\ user_question # <<>>
      /\ uploaded_files # <<>>
      /\ Len(ExtractCalls) = Len(uploaded_files)
      /\ \A i \in 1..Len(ExtractCalls) :
            /\ ~ExtractCalls[i].result.raised
            /\ Blank(ExtractCalls[i].result.text) )
    => (outcome = "error" /\ QaCalls = <<>>)

\* C2: in either pipeline, a file whose parser fails yields the empty string
\* without an exception, and every file of the batch is still extracted.
C2_ParserFailureYieldsEmptyText ==
    \A i \in 1..Len(ExtractCalls) :
        ParserFails(CurrentFiles[ExtractCalls[i].file]) =>
            /\ ~ExtractCalls[i].result.raised
            /\ ExtractCalls[i].result.text = <<>>
            /\ pc = "done" =>
                  \A j \in 1..Len(CurrentFiles) :
                      \E k \in 1..Len(ExtractCalls) : ExtractCalls[k].file = j

\* C3: the context the answering capability receives is the prefix of the
\* combined context of length min(len, 4000).
C3_ContextIsPrefixOfAtMostLimit ==
    \A i \in 1..Len(QaCalls) :
        LET context == QaCalls[i].context
        IN  /\ Len(context) <= ContextLimit
            /\ Len(context) = Min(Len(all_text), ContextLimit)
            /\ \A k \in 1..Len(context) : context[k] = all_text[k]

C3_Witness ==
    /\ pc = "done"
    /\ Len(QaCalls) = 1
    /\ Len(all_text) > ContextLimit
    /\ Len(QaCalls[1].context) = ContextLimit

\* C4: extract_abbreviations returns a mapping whose keys are exactly the
\* acronyms of the matches, each key once, and whose value for an acronym is
\* the normalized full term of the acronym's first match.
C4_FirstMatchWins ==
    (arg.fn = "extract_abbreviations" /\ ret.done) =>
        LET matches == FindAll(arg.text)
            d == ret.value
        IN  /\ Keys(d) = {matches[i].abbr : i \in 1..Len(matches)}
            /\ \A i, j \in 1..Len(d) : d[i].key = d[j].key => i = j
            /\ \A i \in 1..Len(matches) :
                  (\A j \in 1..(i - 1) : matches[j].abbr # matches[i].abbr)
                  => Lookup(d, matches[i].abbr) = Normalize(matches[i].full_term)

C4_Witness ==
    /\ arg.fn = "extract_abbreviations"
    /\ ret.done
    /\ LET matches == FindAll(arg.text)
       IN  \E i, j \in 1..Len(matches) :
              /\ i < j
              /\ \A k \in 1..(i - 1) : matches[k].abbr # matches[i].abbr
              /\ matches[i].abbr = matches[j].abbr
              /\ Normalize(matches[i].full_term) # Normalize(matches[j].full_term)
              /\ Lookup(ret.value, matches[i].abbr) = Normalize(matches[i].full_term)

\* C5: a button pressed with missing input ends the run in a warning, and
\* neither the extractor, nor the answering capability, nor the pattern matcher
\* is invoked in the run.
MissingInput ==
    \/ mode = "qa" /\ (user_question = <<>> \/ uploaded_files = <<>>)
    \/ mode = "abbr" /\ uploaded_files_abbr = <<>>

C5_MissingInputOnlyWarns ==
    (pc # "idle" /\ MissingInput) =>
        /\ pc = "done"
        /\ outcome = "warning"
        /\ out = <<Shown("warning", 0, <<>>, <<>>)>>
        /\ calls = <<>>

C5_Witness ==
    /\ pc = "done"
    /\ mode = "qa"
    /\ user_question = <<>>
    /\ uploaded_files # <<>>
    /\ outcome = "warning"
    /\ calls = <<>>

\* C6: the combined context is the concatenation, in upload order, of one
\* block per file read so far: the header "\n\n===== {filename} =====\n\n"
\* and then the file's extracted text; past the loop every file has its block.
RECURSIVE ExpectedContext(_)
ExpectedContext(n) ==
    IF n = 0 THEN <<>>
    ELSE ExpectedContext(n - 1)
         \o <<"\n", "\n", "=", "=", "=", "=", "=", " ">>
         \o uploaded_files[n].name
         \o <<" ", "=", "=", "=", "=", "=", "\n", "\n">>
         \o extract_text_from_file(uploaded_files[n]).text

C6_ContextIsBlocksInUploadOrder ==
    mode = "qa" =>
        /\ idx <= Len(uploaded_files)
        /\ all_text = ExpectedContext(idx)
        /\ (pc \in {"qa_check", "qa_answer"} \/ outcome \in {"error", "answer"})
           => idx = Len(uploaded_files)

C6_Witness ==
    /\ mode = "qa"
    /\ pc = "qa_check"
    /\ Len(uploaded_files) = 2
    /\ uploaded_files[1].name # uploaded_files[2].name
    /\ \A i \in 1..2 : extract_text_from_file(uploaded_files[i]).text # <<>>
    /\ all_text = ExpectedContext(2)

\* what the run has displayed of file j's index, in the order displayed
EntriesOf(j) == SelectSeq(out, LAMBDA e : e.kind = "entry" /\ e.file = j)

\* the files the abbreviation loop has finished
Indexed == IF mode = "abbr" THEN 1..idx ELSE {}

\* the mapping extract_abbreviations returned for file j
MappingOf(j) ==
    MatcherCalls[CHOOSE k \in 1..Len(MatcherCalls) : MatcherCalls[k].file = j].result

\* C7: the entries of a file with a non-empty mapping are displayed in strictly
\* ascending lexicographic order of acronym, each key of the mapping once, each
\* with the value the mapping holds for it.
C7_EntriesSortedByAcronym ==
    \A j \in Indexed :
        LET es == EntriesOf(j)
            d == MappingOf(j)
        IN  /\ \A i \in 1..(Len(es) - 1) : StrLess(es[i].abbr, es[i + 1].abbr)
            /\ {es[i].abbr : i \in 1..Len(es)} = Keys(d)
            /\ Len(es) = Cardinality(Keys(d))
            /\ \A i \in 1..Len(es) : es[i].text = Lookup(d, es[i].abbr)

C7_Witness ==
    \E j \in Indexed :
        LET es == EntriesOf(j)
            d == MappingOf(j)
        IN  /\ Len(es) >= 3
            /\ \E i \in 1..(Len(d) - 1) : StrLess(d[i + 1].key, d[i].key)
            /\ \A i \in 1..(Len(es) - 1) : StrLess(es[i].abbr, es[i + 1].abbr)

\* C8: the index displayed for a file depends only on the file's own text: its
\* acronyms are those matched in that text, each with the normalized full term
\* of its first match in that text, whatever the other files of the batch hold.
OwnMatches(j) == FindAll(extract_text_from_file(uploaded_files_abbr[j]).text)

C8_IndexDependsOnOwnTextOnly ==
    \A j \in Indexed :
        LET es == EntriesOf(j)
            matches == OwnMatches(j)
        IN  /\ {es[i].abbr : i \in 1..Len(es)}
                  = {matches[i].abbr : i \in 1..Len(matches)}
            /\ \A i \in 1..Len(es) :
                  \E m \in 1..Len(matches) :
                      /\ matches[m].abbr = es[i].abbr
                      /\ \A n \in 1..(m - 1) : matches[n].abbr # es[i].abbr
                      /\ es[i].text = Normalize(matches[m].full_term)

C8_Witness ==
    /\ mode = "abbr"
    /\ pc = "done"
    /\ idx = 2
    /\ \E a \in 1..Len(EntriesOf(1)), b \in 1..Len(EntriesOf(2)) :
          /\ EntriesOf(1)[a].abbr = EntriesOf(2)[b].abbr
          /\ EntriesOf(1)[a].text # EntriesOf(2)[b].text

\* C9: extract_text_from_file dispatches on the lower-cased extension only: any
\* other extension returns the empty string for any content, without raising
\* and without a parser; an extension that differs from a supported one in
\* letter case only takes the branch of the lower-case extension.
C9_DispatchOnLowerCasedExtension ==
    (arg.fn = "extract_text_from_file" /\ ret.done) =>
        LET ext == Extension(arg.file.name)
            supported == {e \in DOMAIN BranchOfExtension : SameIgnoringCase(ext, e)}
        IN  /\ supported = {} => ret.value = Returned("other", <<>>)
            /\ \A e \in supported : ret.value.branch = BranchOfExtension[e]

C9_Witness ==
    /\ arg.fn = "extract_text_from_file"
    /\ ret.done
    /\ arg.file.name = <<"G", ".", "P", "D", "F", "X">>
    /\ ~PdfReader(arg.file.bytes).raised
    /\ ret.value = Returned("other", <<>>)

\* C10: in a Get Answer run the files are extracted one at a time in upload
\* order, each once; the answering capability is invoked at most once, after
\* every file is extracted and the preview is displayed; and the run ends in
\* exactly one of: a warning, the "could not read" error, a displayed answer.
C10_SequentialRunWithOneOutcome ==
    mode = "qa" =>
        /\ \A i \in 1..Len(ExtractCalls) : ExtractCalls[i].file = i
        /\ Len(ExtractCalls) <= Len(uploaded_files)
        /\ Len(QaCalls) <= 1
        /\ QaCalls # <<>> =>
              /\ Len(ExtractCalls) = Len(uploaded_files)
              /\ calls[Len(calls)].fn = "qa"
              /\ \E i \in 1..Len(out) : out[i].kind = "preview"
        /\ pc = "done" => outcome \in {"warning", "error", "answer"}
        /\ outcome = "answer" <=> \E i \in 1..Len(out) : out[i].kind = "answer"
        /\ outcome = "error" <=> \E i \in 1..Len(out) : out[i].kind = "error"
        /\ outcome = "warning" <=> \E i \in 1..Len(out) : out[i].kind = "warning"

====
